---- MODULE Spec2Model ----
(***************************************************************************)
(* Broadcast lifecycle and join-request coordination of the Spontaneous    *)
(* Broadcast backend: the Express handlers of controllers/broadcast.ts,    *)
(* the cleanup worker (cron sweeper), the MongoDB collection with its TTL  *)
(* index, the Redis listing cache and the Bull notification queue.         *)
(*                                                                         *)
(* Every handler is an async function: each `await` is a point where other *)
(* handlers, the sweeper, the TTL monitor and the clock may run.  A        *)
(* handler is therefore modelled as a sequence of steps, one per database, *)
(* cache or queue operation, and the synchronous code between two awaits   *)
(* belongs to one step: a step begins when the operation the handler      *)
(* awaits takes effect and runs to the handler's next call.  A call that   *)
(* is sent but not awaited (the enqueue of RequestJoin) takes effect in a  *)
(* later step of its own.                                                  *)
(*                                                                         *)
(* Mongoose `doc.save()` on a loaded document sends only the modified      *)
(* paths: `$set` for changed scalar fields, `$push` (+ `$inc __v`) for an  *)
(* array push, and `$set joinRequests.<i>.status` guarded by `__v` for a   *)
(* change inside an array element.  A save that matches no document fails  *)
(* (VersionError / DocumentNotFoundError) and the handler answers 500.     *)
(***************************************************************************)
EXTENDS Integers, Sequences, FiniteSets, TLC

\* ---- bounds of the model ------------------------------------------------
MaxTicks == 2
MaxBroadcasts == 1
MaxOps == 4
MaxSwept == 2

\* ---- program constants --------------------------------------------------
CacheTTL == 30

\* ---- input domains ------------------------------------------------------
Users == {"u1", "u2"}
NoUser == "anonymous"
Callers == Users \cup {NoUser}
Creators == {"u1"}
Procs == {1, 2}
\* The slot of the notification worker: Bull runs one job at a time
\* (`process` without a concurrency argument).
Worker == 0
Slots == Procs \cup {Worker}
CreateTitles == {"t1"}
CreateDescriptions == {"d1"}
UpdateTitles == {"t2"}
UpdateDescriptions == {"d2"}
\* (variant of Decisions: the enum also admits 'pending')
DecisionsWithPending == {"accepted", "rejected", "pending"}

\* updateJoinRequestSchema: z.enum(['accepted', 'rejected'])
Decisions == {"accepted", "rejected"}
Undef == "undefined"
NoTime == -1
Ids == 1..MaxBroadcasts
\* The clock is observed in steps of half the cache's time-to-live.
TickStep == CacheTTL \div 2
Times == {k * TickStep : k \in 0..MaxTicks}
\* A supplied expiresAt is the present instant or two clock steps ahead.
ExpiresOffsets == {0, 2 * TickStep}

VARIABLES now, store, nextId, cache, queue, req, resp, started

vars == <<now, store, nextId, cache, queue, req, resp, started>>

\* ---- documents ----------------------------------------------------------
NoDoc == [id |-> 0]

NewBroadcast(id, title, description, creator, createdAt, expiresAt) ==
    [id |-> id, title |-> title, description |-> description,
     creator |-> creator, createdAt |-> createdAt, expiresAt |-> expiresAt,
     status |-> "active", joinRequests |-> <<>>, v |-> 0]

NewJoinRequest(user) == [user |-> user, status |-> "pending"]

FindById(id) == IF id \in DOMAIN store THEN store[id] ELSE NoDoc

\* Array.prototype.find over joinRequests: index of the first entry of the
\* user, 0 when there is none.
FindRequest(doc, user) ==
    LET hits == {i \in 1..Len(doc.joinRequests) : doc.joinRequests[i].user = user}
    IN  IF hits = {} THEN 0 ELSE CHOOSE i \in hits : \A j \in hits : i <= j

\* ---- cache --------------------------------------------------------------
NoCache == [present |-> FALSE, val |-> {}, exp |-> NoTime]

\* (variant of CacheSet: the key is stored with twice the time-to-live)
CacheSetLong(val, t) == [present |-> TRUE, val |-> val, exp |-> t + 2 * CacheTTL]

CacheSet(val, t) == [present |-> TRUE, val |-> val, exp |-> t + CacheTTL]

CacheHit == cache.present /\ now < cache.exp

\* (variant of FindActive: the query filters on status alone)
FindActiveAnyDeadline(t) ==
    {store[b] : b \in {x \in DOMAIN store : store[x].status = "active"}}

\* Broadcast.find({expiresAt: {$gt: t}, status: 'active'})
FindActive(t) ==
    {store[b] : b \in {x \in DOMAIN store :
                          store[x].expiresAt > t /\ store[x].status = "active"}}

\* ---- request slots ------------------------------------------------------
\* A slot holds one in-flight handler invocation: its arguments, the
\* document it loaded and the point it has reached.
Idle ==
    [op |-> "none", pc |-> "idle", caller |-> NoUser, id |-> 0,
     title |-> Undef, description |-> Undef, expiresAt |-> NoTime,
     decision |-> Undef, requester |-> NoUser, doc |-> NoDoc,
     at |-> NoTime, listing |-> {}, up |-> TRUE]

\* A slot of a server process that has exited: `up` is FALSE and no
\* handler runs in it again.
Down == [Idle EXCEPT !.up = FALSE]

\* The HTTP response a handler has just sent (or the outcome the
\* notification worker has just logged), NoResp once it has left the
\* server (Deliver).  It is an output: nothing reads it.  `to` is the
\* addressee of a notification.
NoResp == [op |-> "none", caller |-> NoUser, id |-> 0, result |-> "none",
           listing |-> {}, to |-> NoUser]

Response(r, result) ==
    [op |-> r.op, caller |-> r.caller, id |-> r.id, result |-> result,
     listing |-> r.listing, to |-> NoUser]

\* No response is waiting to leave the server.
Quiet == resp = NoResp

\* The handler of slot p is at its await `pc`.
At(p, pc) == Quiet /\ req[p].up /\ req[p].pc = pc

\* A new invocation takes the first free slot.
CanStart(p) ==
    /\ Quiet
    /\ At(p, "idle")
    /\ \A q \in Procs : req[q].pc = "idle" => \neg (q < p)

\* The handler of slot p goes on to its next await as r.  `started` counts
\* the invocations that got past their first step and caps them at MaxOps.
Proceed(p, r) ==
    /\ started < MaxOps
    /\ req' = [req EXCEPT ![p] = r]
    /\ resp' = NoResp
    /\ started' = started + 1

\* The handler of slot p sends its response and ends.
Finish(p, r, result) ==
    /\ req' = [req EXCEPT ![p] = Idle]
    /\ resp' = Response(r, result)

\* The same in the handler's first step.  Once MaxOps invocations have got
\* past their first step no further invocation arrives.
Reject(p, r, result) ==
    /\ started < MaxOps
    /\ Finish(p, r, result)
    /\ UNCHANGED started

Init ==
    /\ now = 0
    /\ store = <<>>
    /\ nextId = 1
    /\ cache = NoCache
    /\ queue = <<>>
    /\ req = [p \in Slots |-> Idle]
    /\ resp = NoResp
    /\ started = 0

\* ---- the clock and Redis key expiry -------------------------------------
Tick ==
    /\ Quiet
    /\ now + TickStep \in Times
    /\ now' = now + TickStep
    /\ cache' = IF cache.present /\ now' >= cache.exp THEN NoCache ELSE cache
    /\ resp' = NoResp
    /\ UNCHANGED <<store, nextId, queue, req, started>>

\* ---- domain checks ------------------------------------------------------
\* (variant of InThePast: `<` in place of `<=`)
InThePastStrict(expiresAt, t) == expiresAt < t

\* `expirationDate <= new Date()`
InThePast(expiresAt, t) == expiresAt <= t

\* (variant of IsExpired: the stored status is trusted, the deadline is not
\* compared with the clock)
IsExpiredStatusOnly(doc, t) == doc.status = "expired"

\* `broadcast.expiresAt <= new Date() || broadcast.status === 'expired'`
IsExpired(doc, t) == doc.expiresAt <= t \/ doc.status = "expired"

\* (variant of NotCreator: the ownership check is missing)
NotCreatorNever(doc, caller) == FALSE

\* `broadcast.creator.toString() !== req.user?.id`
NotCreator(doc, caller) == doc.creator # caller

\* ---- Create -------------------------------------------------------------
CreateStart(p) ==
    /\ CanStart(p)
    /\ \E title \in CreateTitles, description \in CreateDescriptions,
          off \in ExpiresOffsets, caller \in Creators \cup {NoUser} :
         LET r == [Idle EXCEPT !.op = "create", !.caller = caller,
                               !.title = title, !.description = description,
                               !.expiresAt = now + off]
         IN  IF InThePast(now + off, now)
             THEN Reject(p, r, "InThePast") /\ UNCHANGED nextId
             ELSE IF caller = NoUser
             THEN Reject(p, r, "Unauthorized") /\ UNCHANGED nextId
             ELSE /\ nextId <= MaxBroadcasts
                  /\ Proceed(p, [r EXCEPT !.pc = "c_save", !.id = nextId,
                                    !.doc = NewBroadcast(nextId, title, description,
                                                         caller, now, now + off)])
                  /\ nextId' = nextId + 1
    /\ UNCHANGED <<now, store, cache, queue>>

\* `await broadcast.save()` of a new document: an insert.
InsertDoc(doc) == [b \in DOMAIN store \cup {doc.id} |->
                      IF b = doc.id THEN doc ELSE store[b]]

CreateSave(p) ==
    /\ At(p, "c_save")
    /\ store' = InsertDoc(req[p].doc)
    /\ req' = [req EXCEPT ![p].pc = "c_del"]
    /\ resp' = NoResp
    /\ UNCHANGED <<now, nextId, cache, queue, started>>

\* `await redisClient.del('activeBroadcasts')`, then 201.
CreateDel(p) ==
    /\ At(p, "c_del")
    /\ cache' = NoCache
    /\ Finish(p, req[p], "Created")
    /\ UNCHANGED <<now, store, nextId, queue, started>>

\* ---- ListActive ---------------------------------------------------------
\* `await redisClient.get('activeBroadcasts')` lands at Redis: a present key
\* is answered as it is; on a miss the handler goes on.  `at` records the
\* instant of the GET.
ListStart(p) ==
    /\ CanStart(p)
    /\ LET r == [Idle EXCEPT !.op = "list"]
       IN  IF CacheHit
           THEN Reject(p, [r EXCEPT !.listing = cache.val], "OK")
           ELSE Proceed(p, [r EXCEPT !.pc = "l_find", !.at = now])
    /\ UNCHANGED <<now, store, nextId, cache, queue>>

\* The reply of the GET is handled in a later turn of the event loop:
\* `const now = new Date()` is read then, at an instant t between the GET
\* and the arrival of the query, and `find({expiresAt: {$gt: now},
\* status: 'active'})` is evaluated on the Store as it is when it lands.
ListFind(p) ==
    /\ At(p, "l_find")
    /\ \E t \in {x \in Times : req[p].at <= x /\ x <= now} :
          req' = [req EXCEPT ![p].pc = "l_set", ![p].at = t,
                             ![p].listing = FindActive(t)]
    /\ resp' = NoResp
    /\ UNCHANGED <<now, store, nextId, cache, queue, started>>

ListSet(p) ==
    /\ At(p, "l_set")
    /\ cache' = CacheSet(req[p].listing, now)
    /\ Finish(p, req[p], "OK")
    /\ UNCHANGED <<now, store, nextId, queue, started>>

\* ---- RequestJoin --------------------------------------------------------
\* Arrival, the `!userId` check and `await Broadcast.findById(broadcastId)`.
JoinStart(p) ==
    /\ CanStart(p)
    /\ \E caller \in Callers, id \in Ids \cup DOMAIN store :
         LET r == [Idle EXCEPT !.op = "join", !.caller = caller, !.id = id]
         IN  IF caller = NoUser THEN Reject(p, r, "Unauthorized")
             ELSE IF FindById(id) = NoDoc THEN Reject(p, r, "NotFound")
             ELSE Proceed(p, [r EXCEPT !.pc = "j_check", !.doc = FindById(id)])
    /\ UNCHANGED <<now, store, nextId, cache, queue>>

\* The code between findById and save: the expiry check against the clock,
\* the duplicate check, and the push on the loaded copy.
JoinCheck(p) ==
    /\ At(p, "j_check")
    /\ IF IsExpired(req[p].doc, now) THEN Finish(p, req[p], "Expired")
       ELSE IF FindRequest(req[p].doc, req[p].caller) # 0
       THEN Finish(p, req[p], "AlreadyRequested")
       ELSE /\ req' = [req EXCEPT ![p].pc = "j_save"]
            /\ resp' = NoResp
    /\ UNCHANGED <<now, store, nextId, cache, queue, started>>

\* `await broadcast.save()` after joinRequests.push: updateOne({_id},
\* {$push: {joinRequests: ...}, $inc: {__v: 1}}).
PushRequest(id, user) ==
    [store EXCEPT ![id].joinRequests = Append(@, NewJoinRequest(user)),
                  ![id].v = @ + 1]

\* (variant of JoinSave: save writes the whole loaded copy back)
JoinSaveWholeDoc(p) ==
    /\ At(p, "j_save")
    /\ IF req[p].id \in DOMAIN store
       THEN /\ store' = [store EXCEPT ![req[p].id] =
                   [req[p].doc EXCEPT
                      !.joinRequests = Append(@, NewJoinRequest(req[p].caller)),
                      !.v = @ + 1]]
            /\ req' = [req EXCEPT ![p].pc = "j_enq"]
            /\ resp' = Response(req[p], "OK")
       ELSE /\ Finish(p, req[p], "ServerError")
            /\ UNCHANGED store
    /\ UNCHANGED <<now, nextId, cache, queue, started>>

\* (variant of JoinSave: a failed write does not stop the handler)
JoinSaveIgnoresFailure(p) ==
    /\ At(p, "j_save")
    /\ store' = IF req[p].id \in DOMAIN store
                THEN PushRequest(req[p].id, req[p].caller) ELSE store
    /\ req' = [req EXCEPT ![p].pc = "j_enq"]
    /\ resp' = Response(req[p], "OK")
    /\ UNCHANGED <<now, nextId, cache, queue, started>>

\* The save lands.  In its continuation the handler calls
\* `broadcastNotificationQueue.add(...)` without awaiting it and answers
\* 200: the command is on its way to the queue (pc "j_enq") when the
\* response leaves.  A save that matches no document rejects: 500, and
\* `add` is never called.
JoinSave(p) ==
    /\ At(p, "j_save")
    /\ IF req[p].id \in DOMAIN store
       THEN /\ store' = PushRequest(req[p].id, req[p].caller)
            /\ req' = [req EXCEPT ![p].pc = "j_enq"]
            /\ resp' = Response(req[p], "OK")
       ELSE /\ Finish(p, req[p], "ServerError")
            /\ UNCHANGED store
    /\ UNCHANGED <<now, nextId, cache, queue, started>>

\* `broadcastNotificationQueue.add({broadcastId, requesterId})` lands at
\* the queue, after the handler has answered and returned: the job joins
\* the waiting list and nothing is sent.
JoinEnqueue(p) ==
    /\ At(p, "j_enq")
    /\ queue' = Append(queue, [broadcastId |-> req[p].id,
                               requesterId |-> req[p].caller])
    /\ req' = [req EXCEPT ![p] = Idle]
    /\ resp' = NoResp
    /\ UNCHANGED <<now, store, nextId, cache, started>>

\* ---- DecideJoinRequest --------------------------------------------------
\* Arrival, findById, the creator check and the lookup of the request.
DecideStart(p) ==
    /\ CanStart(p)
    /\ \E caller \in Callers, id \in Ids \cup DOMAIN store :
         LET r == [Idle EXCEPT !.op = "decide", !.caller = caller, !.id = id]
             doc == FindById(id)
         IN  IF doc = NoDoc THEN Reject(p, r, "NotFound")
             ELSE IF NotCreator(doc, caller) THEN Reject(p, r, "Forbidden")
             ELSE \E requester \in Users, decision \in Decisions :
                    LET rr == [r EXCEPT !.requester = requester,
                                        !.decision = decision]
                    IN  IF FindRequest(doc, requester) = 0
                        THEN Reject(p, rr, "RequestNotFound")
                        ELSE Proceed(p, [rr EXCEPT !.pc = "d_save", !.doc = doc])
    /\ UNCHANGED <<now, store, nextId, cache, queue>>

\* (variant of SetRequestStatus: every request of the broadcast is decided)
SetEveryRequestStatus(id, i, s) ==
    [store EXCEPT ![id].joinRequests =
        [k \in 1..Len(@) |-> [@[k] EXCEPT !.status = s]]]

\* `joinRequest.status = status; await broadcast.save()`.  A changed status
\* is sent as updateOne({_id, __v}, {$set: {'joinRequests.<i>.status': s}});
\* an unchanged one leaves no modified path and save only checks that the
\* document still exists.
SetRequestStatus(id, i, s) == [store EXCEPT ![id].joinRequests[i].status = s]

DecideSave(p) ==
    /\ At(p, "d_save")
    /\ LET r == req[p]
           i == FindRequest(r.doc, r.requester)
           modified == r.doc.joinRequests[i].status # r.decision
       IN  IF r.id \notin DOMAIN store THEN
                Finish(p, r, "ServerError") /\ UNCHANGED store
           ELSE IF ~modified THEN
                Finish(p, r, "OK") /\ UNCHANGED store
           ELSE IF store[r.id].v # r.doc.v THEN
                Finish(p, r, "ServerError") /\ UNCHANGED store
           ELSE /\ store' = SetRequestStatus(r.id, i, r.decision)
                /\ Finish(p, r, "OK")
    /\ UNCHANGED <<now, nextId, cache, queue, started>>

\* ---- Delete -------------------------------------------------------------
DeleteStart(p) ==
    /\ CanStart(p)
    /\ \E caller \in Callers, id \in Ids \cup DOMAIN store :
         LET r == [Idle EXCEPT !.op = "delete", !.caller = caller, !.id = id]
             doc == FindById(id)
         IN  IF caller = NoUser THEN Reject(p, r, "Unauthorized")
             ELSE IF doc = NoDoc THEN Reject(p, r, "NotFound")
             ELSE IF NotCreator(doc, caller) THEN Reject(p, r, "Forbidden")
             ELSE Proceed(p, [r EXCEPT !.pc = "x_del"])
    /\ UNCHANGED <<now, store, nextId, cache, queue>>

RemoveDoc(id) == [b \in DOMAIN store \ {id} |-> store[b]]

\* `await Broadcast.findByIdAndDelete(broadcastId)`, then 200.
DeleteApply(p) ==
    /\ At(p, "x_del")
    /\ store' = RemoveDoc(req[p].id)
    /\ Finish(p, req[p], "OK")
    /\ UNCHANGED <<now, nextId, cache, queue, started>>

\* ---- GetById ------------------------------------------------------------
\* getBroadcastDetails: `res.json(await Broadcast.findById(broadcastId))`,
\* NoDoc standing for the 404.
GetBroadcastDetails(id) == FindById(id)

\* ---- Update -------------------------------------------------------------
\* Arrival, `await Broadcast.findById(broadcastId)` and the creator check.
\* A request that supplies expiresAt goes on to compare it with the clock.
UpdateStart(p) ==
    /\ CanStart(p)
    /\ \E caller \in Callers, id \in Ids \cup DOMAIN store :
         LET r == [Idle EXCEPT !.op = "update", !.caller = caller, !.id = id]
             doc == FindById(id)
         IN  IF doc = NoDoc THEN Reject(p, r, "NotFound")
             ELSE IF NotCreator(doc, caller) THEN Reject(p, r, "Forbidden")
             ELSE \E title \in UpdateTitles \cup {Undef},
                     description \in UpdateDescriptions \cup {Undef},
                     expiresAt \in {now + off : off \in ExpiresOffsets} \cup {NoTime} :
                    Proceed(p, [r EXCEPT !.doc = doc, !.title = title,
                        !.description = description, !.expiresAt = expiresAt,
                        !.pc = IF expiresAt = NoTime THEN "u_save" ELSE "u_check"])
    /\ UNCHANGED <<now, store, nextId, cache, queue>>

\* (variant of UpdateCheck: title and description are written before the
\* deadline is compared with the clock)
UpdateCheckAfterWrite(p) ==
    /\ At(p, "u_check")
    /\ IF InThePast(req[p].expiresAt, now)
       THEN /\ Finish(p, req[p], "InThePast")
            /\ store' = IF req[p].id \in DOMAIN store /\ req[p].title # Undef
                        THEN [store EXCEPT ![req[p].id].title = req[p].title]
                        ELSE store
       ELSE /\ req' = [req EXCEPT ![p].pc = "u_save"]
            /\ resp' = NoResp
            /\ UNCHANGED store
    /\ UNCHANGED <<now, nextId, cache, queue, started>>

\* `if (newExpiresAt <= new Date())` on the way to save.
UpdateCheck(p) ==
    /\ At(p, "u_check")
    /\ IF InThePast(req[p].expiresAt, now)
       THEN Finish(p, req[p], "InThePast")
       ELSE /\ req' = [req EXCEPT ![p].pc = "u_save"]
            /\ resp' = NoResp
    /\ UNCHANGED <<now, store, nextId, cache, queue, started>>

\* (variant of ApplyUpdate: save writes the whole loaded copy back)
ApplyUpdateWholeDoc(r) ==
    [store EXCEPT ![r.id] =
        [r.doc EXCEPT
           !.title = IF r.title # Undef THEN r.title ELSE @,
           !.description = IF r.description # Undef THEN r.description ELSE @,
           !.expiresAt = IF r.expiresAt # NoTime THEN r.expiresAt ELSE @]]

\* `await broadcast.save()`: updateOne({_id}, {$set: <the paths whose value
\* differs from the loaded copy>}).
ApplyUpdate(r) ==
    [store EXCEPT
       ![r.id].title = IF r.title # Undef /\ r.title # r.doc.title
                       THEN r.title ELSE @,
       ![r.id].description =
           IF r.description # Undef /\ r.description # r.doc.description
           THEN r.description ELSE @,
       ![r.id].expiresAt =
           IF r.expiresAt # NoTime /\ r.expiresAt # r.doc.expiresAt
           THEN r.expiresAt ELSE @]

\* (variant of UpdateSave: save inserts the loaded copy when the document
\* is gone)
UpdateSaveUpsert(p) ==
    /\ At(p, "u_save")
    /\ store' = IF req[p].id \in DOMAIN store THEN ApplyUpdate(req[p])
                ELSE InsertDoc(req[p].doc)
    /\ Finish(p, req[p], "OK")
    /\ UNCHANGED <<now, nextId, cache, queue, started>>

UpdateSave(p) ==
    /\ At(p, "u_save")
    /\ IF req[p].id \in DOMAIN store
       THEN /\ store' = ApplyUpdate(req[p])
            /\ Finish(p, req[p], "OK")
       ELSE /\ Finish(p, req[p], "ServerError")
            /\ UNCHANGED store
    /\ UNCHANGED <<now, nextId, cache, queue, started>>

\* ---- the cleanup worker (sweeper) ---------------------------------------
\* Broadcast.updateMany({expiresAt: {$lte: t}, status: 'active'},
\*                      {$set: {status: 'expired'}})
\* (variant of MarkExpiredIn: `$lt` in place of `$lte`)
MarkExpiredStrictIn(s, t) ==
    [b \in DOMAIN s |->
        IF s[b].expiresAt < t /\ s[b].status = "active"
        THEN [s[b] EXCEPT !.status = "expired"] ELSE s[b]]

\* (variant of MarkExpiredIn: the filter has no status and the update also
\* increments __v)
MarkExpiredBumpIn(s, t) ==
    [b \in DOMAIN s |->
        IF s[b].expiresAt <= t
        THEN [s[b] EXCEPT !.status = "expired", !.v = @ + 1] ELSE s[b]]

\* The update applied to a collection s.
MarkExpiredIn(s, t) ==
    [b \in DOMAIN s |->
        IF s[b].expiresAt <= t /\ s[b].status = "active"
        THEN [s[b] EXCEPT !.status = "expired"] ELSE s[b]]

MarkExpired(t) == MarkExpiredIn(store, t)

\* (variant of Sweep: the clock is read once, when the worker starts)
SweepStartupClock ==
    /\ Quiet
    /\ store' = MarkExpired(0)
    /\ resp' = NoResp
    /\ UNCHANGED <<now, nextId, cache, queue, req, started>>

\* One cron run.  `const now = new Date()` is read before the update is
\* sent, so the update lands with a clock value t that is the present or
\* an earlier one; runs may overlap, each lands as one updateMany.
Sweep ==
    /\ Quiet
    /\ \E t \in {x \in Times : x <= now} : store' = MarkExpired(t)
    /\ resp' = NoResp
    /\ UNCHANGED <<now, nextId, cache, queue, req, started>>

\* The same run in its two steps: the cron callback reads the clock, and
\* the updateMany it has sent lands later.  A slot holds a run in flight.
SweepStart(p) ==
    /\ CanStart(p)
    /\ Proceed(p, [Idle EXCEPT !.op = "sweep", !.pc = "s_upd", !.at = now])
    /\ UNCHANGED <<now, store, nextId, cache, queue>>

SweepUpdate(p) ==
    /\ At(p, "s_upd")
    /\ store' = MarkExpired(req[p].at)
    /\ req' = [req EXCEPT ![p] = Idle]
    /\ resp' = NoResp
    /\ UNCHANGED <<now, nextId, cache, queue, started>>

\* ---- MongoDB TTL monitor ------------------------------------------------
\* index({expiresAt: 1}, {expireAfterSeconds: 0}): a document whose
\* expiresAt has been reached is removed by the server at some later time.
\* (variant of TTLPurge: the monitor does not compare expiresAt with the
\* clock)
TTLPurgeEarly ==
    /\ Quiet
    /\ \E b \in DOMAIN store : store' = RemoveDoc(b)
    /\ resp' = NoResp
    /\ UNCHANGED <<now, nextId, cache, queue, req, started>>

TTLPurge ==
    /\ Quiet
    /\ \E b \in DOMAIN store :
         /\ store[b].expiresAt <= now
         /\ store' = RemoveDoc(b)
    /\ resp' = NoResp
    /\ UNCHANGED <<now, nextId, cache, queue, req, started>>

\* The pending response leaves the server.
Deliver ==
    /\ ~Quiet
    /\ resp' = NoResp
    /\ UNCHANGED <<now, store, nextId, cache, queue, req, started>>

Next ==
    \/ Deliver
    \/ Tick
    \/ TTLPurge
    \/ \E p \in Procs : CreateStart(p)
    \/ \E p \in Procs : CreateSave(p)
    \/ \E p \in Procs : CreateDel(p)
    \/ \E p \in Procs : ListStart(p)
    \/ \E p \in Procs : ListFind(p)
    \/ \E p \in Procs : ListSet(p)
    \/ \E p \in Procs : JoinStart(p)
    \/ \E p \in Procs : JoinCheck(p)
    \/ \E p \in Procs : JoinSave(p)
    \/ \E p \in Procs : JoinEnqueue(p)
    \/ \E p \in Procs : DecideStart(p)
    \/ \E p \in Procs : DecideSave(p)
    \/ \E p \in Procs : DeleteStart(p)
    \/ \E p \in Procs : DeleteApply(p)
    \/ \E p \in Procs : UpdateStart(p)
    \/ \E p \in Procs : UpdateCheck(p)
    \/ \E p \in Procs : UpdateSave(p)
    \/ Sweep

Spec == Init /\ [][Next]_vars

\* ---- the sweeper over a populated collection -----------------------------
\* The cleanup worker alone, runs overlapping, over a collection of
\* MaxSwept active broadcasts with differing deadlines and join requests.
SweptIds == 1..MaxSwept
SweptDeadlines == {k * TickStep : k \in 1..(MaxTicks + 1)}
SweptRequests ==
    {<<>>, <<NewJoinRequest("u2")>>,
     <<[NewJoinRequest("u2") EXCEPT !.status = "accepted"]>>}

InitSweep ==
    /\ now = 0
    /\ store \in [SweptIds -> [id : SweptIds, title : CreateTitles,
                               description : CreateDescriptions,
                               creator : Creators, createdAt : {0},
                               expiresAt : SweptDeadlines, status : {"active"},
                               joinRequests : SweptRequests, v : {0, 1}]]
    /\ \A b \in SweptIds : /\ store[b].id = b
                            /\ store[b].v = Len(store[b].joinRequests)
    /\ nextId = MaxSwept + 1
    /\ cache = NoCache
    /\ queue = <<>>
    /\ req = [p \in Slots |-> Idle]
    /\ resp = NoResp
    /\ started = 0

NextSweep ==
    \/ Tick
    \/ \E p \in Procs : SweepStart(p)
    \/ \E p \in Procs : SweepUpdate(p)

SpecSweep == InitSweep /\ [][NextSweep]_vars

\* ---- expiry with no request ----------------------------------------------
\* The same collection with no handler running: the clock, the cron job and
\* the TTL monitor.  cron.schedule('* * * * *', ...) fires every minute for
\* as long as the worker lives, so a run that would change the collection
\* is not postponed for ever.
NextExpiry ==
    \/ Tick
    \/ Sweep
    \/ TTLPurge

SpecExpiry == InitSweep /\ [][NextExpiry]_vars /\ WF_vars(Sweep)

\* ---- Redis and queue failures -------------------------------------------
\* Under Spec every Redis and Bull call succeeds.  The actions below are the
\* same awaits when the call rejects; each handler's `catch` answers 500.

\* `await redisClient.del('activeBroadcasts')` rejects after the save.
CreateDelFails(p) ==
    /\ At(p, "c_del")
    /\ Finish(p, req[p], "ServerError")
    /\ UNCHANGED <<now, store, nextId, cache, queue, started>>

\* `await redisClient.get('activeBroadcasts')` rejects.
ListGetFails(p) ==
    /\ CanStart(p)
    /\ Reject(p, [Idle EXCEPT !.op = "list"], "ServerError")
    /\ UNCHANGED <<now, store, nextId, cache, queue>>

\* `await redisClient.set('activeBroadcasts', ..., {EX: 30})` rejects after
\* the Store query.
ListSetFails(p) ==
    /\ At(p, "l_set")
    /\ Finish(p, [req[p] EXCEPT !.listing = {}], "ServerError")
    /\ UNCHANGED <<now, store, nextId, cache, queue, started>>

\* (variant of JoinEnqueueFails: the rejection reaches the handler's catch)
JoinEnqueueFailsWith500(p) ==
    /\ At(p, "j_enq")
    /\ Finish(p, req[p], "ServerError")
    /\ UNCHANGED <<now, store, nextId, cache, queue, started>>

\* The job of the RequestJoin, or of the worker's run, held by slot r.
Job(r) == [broadcastId |-> r.id, requesterId |-> r.caller]

\* The awaits at which the command a handler has sent writes when it
\* arrives (the others are reads and continuations).
WritePending ==
    {"c_save", "c_del", "l_set", "j_save", "j_enq", "d_save", "x_del", "u_save"}

\* `broadcastNotificationQueue.add(...)` rejects.  The promise is neither
\* awaited nor caught and nothing handles `unhandledRejection`: the handler
\* has already answered 200 and returned, no job is added, and Node ends
\* the server process.  No handler runs any more and the calls in flight
\* are never answered; a write one of them has sent is still on its way.
\* The worker and the sweeper are processes of their own and go on.
JoinEnqueueFails(p) ==
    /\ At(p, "j_enq")
    /\ req' = [q \in Slots |->
                  IF q \notin Procs THEN req[q]
                  ELSE IF q = p \/ req[q].pc \notin WritePending THEN Down
                  ELSE [req[q] EXCEPT !.up = FALSE]]
    /\ resp' = NoResp
    /\ UNCHANGED <<now, store, nextId, cache, queue, started>>

\* A write sent by a handler of the exited process arrives: it takes
\* effect as it would have, and nothing is answered.
OrphanLands(p) ==
    /\ Quiet
    /\ ~req[p].up /\ req[p].pc \in WritePending
    /\ LET r == req[p]
           stored == r.id \in DOMAIN store
           i == FindRequest(r.doc, r.requester)
       IN  /\ store' =
                CASE r.pc = "c_save" -> InsertDoc(r.doc)
                  [] r.pc = "j_save" /\ stored -> PushRequest(r.id, r.caller)
                  [] r.pc = "d_save" /\ stored
                       /\ r.doc.joinRequests[i].status # r.decision
                       /\ store[r.id].v = r.doc.v ->
                         SetRequestStatus(r.id, i, r.decision)
                  [] r.pc = "x_del" -> RemoveDoc(r.id)
                  [] r.pc = "u_save" /\ stored -> ApplyUpdate(r)
                  [] OTHER -> store
           /\ cache' =
                CASE r.pc = "c_del" -> NoCache
                  [] r.pc = "l_set" -> CacheSet(r.listing, now)
                  [] OTHER -> cache
           /\ queue' = IF r.pc = "j_enq" THEN Append(queue, Job(r)) ELSE queue
    /\ req' = [req EXCEPT ![p] = Down]
    /\ resp' = NoResp
    /\ UNCHANGED <<now, nextId, started>>

\* Such a write is lost with the connection of the exited process.
OrphanLost(p) ==
    /\ Quiet
    /\ ~req[p].up /\ req[p].pc \in WritePending
    /\ req' = [req EXCEPT ![p] = Down]
    /\ resp' = NoResp
    /\ UNCHANGED <<now, store, nextId, cache, queue, started>>

\* ---- the notification worker --------------------------------------------
\* What the worker logs for a job.
Outcome(job, result, to) ==
    [op |-> "notify", caller |-> job.requesterId, id |-> job.broadcastId,
     result |-> result, listing |-> {}, to |-> to]

\* `findById(broadcastId).populate('creator')` has answered.  A missing
\* broadcast is logged and the job returns: nothing is populated.  For a
\* stored broadcast Mongoose populates `creator` (ref 'User'): the process
\* of this file registers the Broadcast model only (lines 3-5), and the
\* populate of a path whose model is not registered rejects with
\* MissingSchemaError; where the model is registered, `creator` becomes the
\* user's document, or null when there is none, and
\* `broadcast.creator.toString()` throws.  `resolved` says that the
\* creator's document was resolved: only then is the creator of the stored
\* broadcast notified, otherwise the catch logs and rethrows.
Notify(job, resolved) ==
    IF FindById(job.broadcastId) = NoDoc
    THEN Outcome(job, "Dropped", NoUser)
    ELSE IF resolved
         THEN Outcome(job, "Notified", FindById(job.broadcastId).creator)
         ELSE Outcome(job, "Failed", NoUser)

\* Bull hands the oldest waiting job to the processor: the job leaves the
\* waiting list and the processor sends `findById(broadcastId)
\* .populate('creator')` and awaits it.
ProcessTake ==
    /\ At(Worker, "idle")
    /\ queue # <<>>
    /\ queue' = Tail(queue)
    /\ req' = [req EXCEPT ![Worker] =
                  [Idle EXCEPT !.op = "notify", !.pc = "w_read",
                               !.id = Head(queue).broadcastId,
                               !.caller = Head(queue).requesterId]]
    /\ resp' = NoResp
    /\ UNCHANGED <<now, store, nextId, cache, started>>

\* The Store read lands and the processor logs its outcome from the Store
\* as it is then.  The job was taken from the waiting list before; it
\* completes, or fails in the populate of the creator, and is not put back.
Process ==
    /\ At(Worker, "w_read")
    /\ req' = [req EXCEPT ![Worker] = Idle]
    /\ \E resolved \in BOOLEAN : resp' = Notify(Job(req[Worker]), resolved)
    /\ UNCHANGED <<now, store, nextId, cache, queue, started>>

\* The Store read of the processor rejects: the catch logs and rethrows.
\* The job fails and, `add` having been called without `attempts`, is not
\* run again.
ProcessFails ==
    /\ At(Worker, "w_read")
    /\ req' = [req EXCEPT ![Worker] = Idle]
    /\ resp' = Outcome(Job(req[Worker]), "Failed", NoUser)
    /\ UNCHANGED <<now, store, nextId, cache, queue, started>>

\* The handlers together with the notification worker, every call
\* succeeding.
NextNotify ==
    \/ Next
    \/ ProcessTake
    \/ Process

SpecNotify == Init /\ [][NextNotify]_vars

\* The same with the calls that may fail.
NextFaults ==
    \/ NextNotify
    \/ \E p \in Procs : CreateDelFails(p)
    \/ \E p \in Procs : ListGetFails(p)
    \/ \E p \in Procs : ListSetFails(p)
    \/ \E p \in Procs : JoinEnqueueFails(p)
    \/ \E p \in Procs : OrphanLands(p)
    \/ \E p \in Procs : OrphanLost(p)
    \/ ProcessFails

SpecFaults == Init /\ [][NextFaults]_vars

\* Update, RequestJoin and Delete over a collection of MaxSwept broadcasts
\* of one creator, the first with a pending join request, each with its
\* own deadline: an Update runs while other broadcasts are stored,
\* updated, joined and deleted.  The clock stands still (Spec moves it).
InitUpdate ==
    /\ now = 0
    /\ store = [b \in SweptIds |->
                  [NewBroadcast(b, "t1", "d1", "u1", 0, b * TickStep)
                     EXCEPT !.joinRequests =
                                IF b = 1 THEN <<NewJoinRequest("u2")>> ELSE <<>>,
                            !.v = IF b = 1 THEN 1 ELSE 0]]
    /\ nextId = MaxSwept + 1
    /\ cache = NoCache
    /\ queue = <<>>
    /\ req = [p \in Slots |-> Idle]
    /\ resp = NoResp
    /\ started = 0

NextUpdate ==
    \/ Deliver
    \/ \E p \in Procs : JoinStart(p)
    \/ \E p \in Procs : JoinCheck(p)
    \/ \E p \in Procs : JoinSave(p)
    \/ \E p \in Procs : JoinEnqueue(p)
    \/ \E p \in Procs : DeleteStart(p)
    \/ \E p \in Procs : DeleteApply(p)
    \/ \E p \in Procs : UpdateStart(p)
    \/ \E p \in Procs : UpdateCheck(p)
    \/ \E p \in Procs : UpdateSave(p)

SpecUpdate == InitUpdate /\ [][NextUpdate]_vars

\* =========================================================================
\* Properties
\* =========================================================================
Requests(b) == store[b].joinRequests


\* C1: a broadcast's joinRequests holds at most one entry per user, after
\* any sequence or interleaving of RequestJoin calls.
C1_OneRequestPerUser ==
    \A b \in DOMAIN store :
      \A i, j \in 1..Len(Requests(b)) :
        Requests(b)[i].user = Requests(b)[j].user => i = j

\* C2: when RequestJoin's check finds the loaded broadcast not active or its
\* expiresAt <= now, the call answers Expired and neither the Store nor the
\* queue changes; a join request is appended only by a call whose check
\* found the broadcast active with its deadline ahead.
C2_ExpiredJoinRefused ==
    [][/\ \A p \in Procs :
            (/\ req[p].pc = "j_check" /\ req'[p].pc # "j_check"
             /\ (req[p].doc.status # "active" \/ req[p].doc.expiresAt <= now))
            => /\ resp' = Response(req[p], "Expired")
               /\ store' = store
               /\ queue' = queue
       /\ \A b \in DOMAIN store :
            (b \in DOMAIN store' /\ Len(store'[b].joinRequests) > Len(Requests(b)))
            => \E p \in Procs : req[p].pc = "j_save" /\ req[p].id = b
       /\ \A p \in Procs :
            (req[p].pc # "j_save" /\ req'[p].pc = "j_save")
            => /\ req[p].pc = "j_check"
               /\ req[p].doc.status = "active"
               /\ req[p].doc.expiresAt > now]_vars

\* RequestJoin answered Expired although the Sweeper has not yet flipped the
\* stored status.
C2_Witness ==
    /\ resp.op = "join" /\ resp.result = "Expired"
    /\ resp.id \in DOMAIN store
    /\ store[resp.id].status = "active"

\* C3: a stored broadcast with status expired never has status active
\* again, and a record enters the Store only as a newly created one.
C3_StatusMonotonic ==
    [][/\ \A b \in DOMAIN store :
            (store[b].status = "expired" /\ b \in DOMAIN store')
            => store'[b].status = "expired"
       /\ \A b \in DOMAIN store' \ DOMAIN store :
            \E p \in Procs : req[p].pc = "c_save" /\ req[p].id = b]_vars

\* An Update by the creator has just succeeded on an expired broadcast.
C3_Witness ==
    /\ resp.op = "update" /\ resp.result = "OK"
    /\ resp.id \in DOMAIN store
    /\ store[resp.id].status = "expired"

\* C4: a stored broadcast with status expired has expiresAt <= now.
C4_ExpiredOnlyPastDeadline ==
    \A b \in DOMAIN store :
      store[b].status = "expired" => store[b].expiresAt <= now

\* C5 (as claimed): once a JoinRequest is accepted or rejected its status
\* never changes again.
C5_DecidedOnce ==
    [][\A b \in DOMAIN store :
         b \in DOMAIN store' =>
           \A i \in 1..Len(Requests(b)) :
             Requests(b)[i].status # "pending"
             => /\ i <= Len(store'[b].joinRequests)
                /\ store'[b].joinRequests[i].status = Requests(b)[i].status]_vars

\* C5 (amended): a JoinRequest starts pending, keeps its place and its user,
\* and once accepted or rejected never returns to pending (a later decision
\* may replace accepted by rejected and rejected by accepted).
C5_NeverBackToPending ==
    [][\A b \in DOMAIN store :
         b \in DOMAIN store' =>
           /\ Len(store'[b].joinRequests) >= Len(Requests(b))
           /\ \A i \in 1..Len(Requests(b)) :
                /\ store'[b].joinRequests[i].user = Requests(b)[i].user
                /\ Requests(b)[i].status # "pending"
                   => store'[b].joinRequests[i].status # "pending"
           /\ \A i \in (Len(Requests(b)) + 1)..Len(store'[b].joinRequests) :
                store'[b].joinRequests[i].status = "pending"]_vars

\* A DecideJoinRequest has just succeeded and the request is decided.
C5_Witness ==
    /\ resp.op = "decide" /\ resp.result = "OK"
    /\ resp.id \in DOMAIN store
    /\ \E i \in 1..Len(Requests(resp.id)) :
         Requests(resp.id)[i].status \in {"accepted", "rejected"}

\* C6: a Create or an Update that supplies expiresAt goes on to its Store
\* write only when expiresAt is strictly later than the clock at its check,
\* the Store receives exactly that value, and a call answered InThePast
\* leaves the Store unchanged.
C6_ExpiresAtStrictlyFuture ==
    [][/\ \A p \in Procs :
            (req[p].pc = "idle" /\ req'[p].pc = "c_save")
            => /\ req'[p].doc.expiresAt > now
               /\ req'[p].doc.createdAt = now
       /\ \A p \in Procs :
            (req[p].pc # "u_save" /\ req'[p].pc = "u_save"
             /\ req'[p].expiresAt # NoTime)
            => /\ req[p].pc = "u_check"
               /\ req'[p].expiresAt = req[p].expiresAt
               /\ req'[p].expiresAt > now
       /\ \A b \in DOMAIN store' \ DOMAIN store :
            \E p \in Procs : /\ req[p].pc = "c_save"
                             /\ store'[b].expiresAt = req[p].doc.expiresAt
                             /\ store'[b].expiresAt > req[p].doc.createdAt
       /\ \A b \in DOMAIN store :
            (b \in DOMAIN store' /\ store'[b].expiresAt # store[b].expiresAt)
            => \E p \in Procs : /\ req[p].pc = "u_save" /\ req[p].id = b
                                /\ store'[b].expiresAt = req[p].expiresAt
       /\ resp'.result = "InThePast" => store' = store]_vars

\* An Update that supplied expiresAt has just succeeded: the stored deadline
\* is no longer the one the broadcast was created with.
C6_Witness ==
    /\ resp.op = "update" /\ resp.result = "OK"
    /\ resp.id \in DOMAIN store
    /\ store[resp.id].expiresAt # store[resp.id].createdAt + 2 * TickStep

\* C7: a step that changes title, description or expiresAt of a stored
\* broadcast is the save of an Update, one that changes the status of one of
\* its JoinRequests is the save of a DecideJoinRequest, and a handler step
\* that removes it is a Delete, each by the broadcast's creator; the same
\* operations by another authenticated caller answer Forbidden and leave
\* the Store unchanged.  (The TTL monitor's purge is no caller's operation.)
C7_OnlyCreatorMutates ==
    [][/\ \A b \in DOMAIN store :
            LET by(op, pc) ==
                  \E p \in Procs : /\ req[p].op = op /\ req[p].pc = pc
                                   /\ req[p].id = b
                                   /\ req[p].caller = store[b].creator
            IN  /\ (/\ b \in DOMAIN store'
                    /\ \/ store'[b].title # store[b].title
                       \/ store'[b].description # store[b].description
                       \/ store'[b].expiresAt # store[b].expiresAt)
                   => by("update", "u_save")
                /\ (/\ b \in DOMAIN store'
                    /\ \E i \in 1..Len(Requests(b)) :
                         /\ i <= Len(store'[b].joinRequests)
                         /\ store'[b].joinRequests[i].status # Requests(b)[i].status)
                   => by("decide", "d_save")
                /\ (b \notin DOMAIN store' /\ req' # req)
                   => by("delete", "x_del")
       /\ (/\ resp'.op \in {"update", "decide", "delete"}
           /\ resp'.id \in DOMAIN store
           /\ resp'.caller \in Users
           /\ resp'.caller # store[resp'.id].creator)
          => /\ resp'.result = "Forbidden"
             /\ store' = store]_vars

\* A Delete by a user who is not the creator has just been refused.
C7_Witness ==
    /\ resp.op = "delete" /\ resp.result = "Forbidden"
    /\ resp.id \in DOMAIN store
    /\ resp.caller \in Users
    /\ resp.caller # store[resp.id].creator

\* C8: when an Update or a Delete answers success, the cache holds no
\* listing computed before that write: a cached listing does not show the
\* broadcast as it was before the write.
C8_WritesInvalidateCache ==
    (resp.op \in {"update", "delete"} /\ resp.result = "OK" /\ cache.present)
    => \A d \in cache.val :
         d.id = resp.id
         => /\ resp.id \in DOMAIN store
            /\ d.title = store[resp.id].title
            /\ d.description = store[resp.id].description
            /\ d.expiresAt = store[resp.id].expiresAt

\* C9: after a Sweeper run that changes a broadcast from active to expired
\* the cache holds no listing that contains that broadcast.
C9_SweepInvalidatesCache ==
    [][\A b \in DOMAIN store :
         (/\ b \in DOMAIN store'
          /\ store[b].status = "active"
          /\ store'[b].status = "expired")
         => ~(cache'.present /\ \E d \in cache'.val : d.id = b)]_vars

\* C10 (as claimed): every broadcast of a ListActive result has status
\* active and expiresAt > now when the result is returned.
C10_ListedAreActiveNow ==
    resp.op = "list"
    => \A d \in resp.listing : d.status = "active" /\ d.expiresAt > now

\* C10 (amended): every listing is computed by the Store query as stored
\* broadcasts with status active and expiresAt later than the clock read
\* for that query; the cache receives only such a listing, a ListActive
\* result is that listing or the cached one, and no step of ListActive
\* changes the Store.
C10_ListedWereActiveAtQuery ==
    [][/\ \A p \in Procs :
            (req[p].pc = "l_find" /\ req'[p].pc = "l_set")
            => /\ req[p].at <= req'[p].at /\ req'[p].at <= now
               /\ \A d \in req'[p].listing :
                    /\ d.id \in DOMAIN store /\ d = store[d.id]
                    /\ d.status = "active"
                    /\ d.expiresAt > req'[p].at
       /\ \A p \in Procs :
            (req[p].pc = "l_set" /\ req'[p].pc # "l_set")
            => /\ resp' = Response(req[p], "OK")
               /\ cache'.present /\ cache'.val = req[p].listing
       /\ (cache'.present /\ cache' # cache)
          => \E p \in Procs : req[p].pc = "l_set" /\ cache'.val = req[p].listing
       /\ (resp'.op = "list" /\ req' = req)
          => cache.present /\ now < cache.exp /\ resp'.listing = cache.val
       /\ (resp'.op = "list" \/ \E p \in Procs : req[p].op = "list" /\ req'[p] # req[p])
          => store' = store]_vars

\* A ListActive result served while a broadcast it contains has reached its
\* deadline.
C10_Witness ==
    /\ resp.op = "list" /\ resp.result = "OK"
    /\ \E d \in resp.listing : d.expiresAt <= now

\* C11: once Create has answered 201 (its cache delete done), a ListActive
\* that starts afterwards and is answered with a listing contains the new
\* broadcast as long as it is stored, active and before its deadline,
\* whatever other ListActive calls are in flight.  (Under Spec the cache
\* delete never fails, so a Create that has returned has invalidated.)
C11_CreatedIsListed ==
    [][(resp'.op = "list" /\ resp'.result = "OK" /\ req' = req)
       => \A b \in DOMAIN store :
            (/\ store[b].status = "active"
             /\ store[b].expiresAt > now
             /\ \A p \in Procs : ~(req[p].op = "create" /\ req[p].id = b))
            => \E d \in resp'.listing : d.id = b]_vars

\* C12: ListActive never answers an error because the cache is unavailable:
\* whatever the cache read or the cache write does, the call is answered
\* OK (with the listing read from the Store).
C12_ListSurvivesCacheFailure ==
    resp.op = "list" => resp.result = "OK"

\* C13: a Create that has persisted its broadcast answers success whatever
\* the cache delete does, and that step leaves the Store as it is.
C13_CreateSurvivesInvalidationFailure ==
    [][\A p \in Procs :
         (req[p].pc = "c_del" /\ req'[p].pc # "c_del")
         => /\ resp'.op = "create"
            /\ resp'.result = "Created"
            /\ store' = store]_vars

\* The broadcast b has been stored and is no longer: its insert is done and
\* the Store holds no document with that id.
Gone(b) ==
    /\ b \in 1..(nextId - 1)
    /\ b \notin DOMAIN store
    /\ \A p \in Procs : ~(req[p].op = "create" /\ req[p].id = b
                          /\ req[p].pc = "c_save")

\* C14: a broadcast that has been removed stays removed whatever the calls
\* in flight do (a save that finds no document changes nothing), a Delete
\* answered OK leaves no document with that id, and a RequestJoin,
\* DecideJoinRequest, Update or Delete of an authenticated caller that
\* starts on a removed id is answered NotFound.
C14_DeleteIsPermanent ==
    [][/\ \A b \in Ids :
            /\ (b \in DOMAIN store /\ b \notin DOMAIN store') => Gone(b)'
            /\ Gone(b) => Gone(b)'
            /\ (/\ Gone(b)
                /\ resp'.op \in {"join", "decide", "update", "delete"}
                /\ resp'.id = b
                /\ \A p \in Procs : req[p].id = b => req'[p] = req[p])
               => (resp'.caller \in Users => resp'.result = "NotFound")
       /\ (resp'.op = "delete" /\ resp'.result = "OK")
          => resp'.id \notin DOMAIN store']_vars

\* An Update that had loaded the broadcast before it was deleted has just
\* failed to save; the clock has not moved, so the TTL monitor removed
\* nothing.
C14_Witness ==
    /\ now = 0
    /\ resp.op = "update" /\ resp.result = "ServerError"
    /\ Gone(resp.id)

\* The notification event of the RequestJoin held by r.
Event(r) == [broadcastId |-> r.id, requesterId |-> r.caller]

\* C15 (as claimed): every RequestJoin that has answered OK enqueues
\* exactly one event {broadcastId, requesterId}.
C15_ExactlyOneEvent ==
    [][\A p \in Procs :
         (req[p].pc = "j_enq" /\ req'[p].pc # "j_enq")
         => queue' = Append(queue, Event(req[p]))]_vars

\* C15 (amended): a handler sends its event to the queue only in the step
\* that persists its pending JoinRequest, the step in which it answers OK;
\* the queue grows only when that event arrives, by that one event, with
\* the Store as it is; a RequestJoin answered OK enqueues at most one
\* event, and one answered otherwise none.
C15_EnqueueAfterPersist ==
    [][/\ \A p \in Procs :
            (req[p].pc # "j_enq" /\ req'[p].pc = "j_enq")
            => /\ req[p].pc = "j_save" /\ req[p].op = "join"
               /\ req[p].id \in DOMAIN store /\ req[p].id \in DOMAIN store'
               /\ store'[req[p].id].joinRequests =
                     Append(Requests(req[p].id),
                            [user |-> req[p].caller, status |-> "pending"])
               /\ resp' = Response(req[p], "OK")
               /\ Event(req'[p]) = Event(req[p])
               /\ queue' = queue
       /\ Len(queue') > Len(queue)
          => \E p \in Procs : /\ req[p].pc = "j_enq" /\ req'[p].pc = "idle"
                              /\ queue' = Append(queue, Event(req[p]))
                              /\ store' = store
       /\ \A p \in Procs :
            (req[p].pc = "j_enq" /\ req'[p].pc # "j_enq")
            => /\ req'[p].pc = "idle"
               /\ queue' \in {queue, Append(queue, Event(req[p]))}
       /\ (resp'.op = "join" /\ resp'.result = "OK")
          => \E p \in Procs : /\ req[p].pc = "j_save" /\ req'[p].pc = "j_enq"
                              /\ Event(req[p]) = Event(resp')
       /\ (resp'.op = "join" /\ resp'.result # "OK")
          => /\ queue' = queue
             /\ \A p \in Procs : req'[p].pc = "j_enq" => req[p].pc = "j_enq"]_vars

\* The event of a RequestJoin has arrived: it is at the tail of the queue,
\* its pending JoinRequest is in the Store and its handler has ended.
C15_Witness ==
    /\ queue # <<>>
    /\ \A p \in Procs : req[p].pc # "j_enq"
    /\ queue[Len(queue)].broadcastId \in DOMAIN store
    /\ \E i \in 1..Len(Requests(queue[Len(queue)].broadcastId)) :
         Requests(queue[Len(queue)].broadcastId)[i] =
            [user |-> queue[Len(queue)].requesterId, status |-> "pending"]

\* C16: the step that persists the JoinRequest answers OK before the event
\* has reached the queue, so the answer waits neither for the queue nor
\* for the worker; whether the enqueue then succeeds or fails, nothing more
\* is sent to the caller, the persisted JoinRequest is still stored and the
\* Store stays as it is.
C16_JoinSurvivesEnqueueFailure ==
    [][\A p \in Procs :
         /\ (req[p].pc = "j_save" /\ req'[p].pc = "j_enq")
            => /\ resp' = Response(req[p], "OK")
               /\ queue' = queue
               /\ req[Worker] = req'[Worker]
         /\ (req[p].pc = "j_enq" /\ req'[p].pc # "j_enq")
            => /\ resp' = NoResp
               /\ store' = store
               /\ req[p].id \in DOMAIN store
                  => \E i \in 1..Len(Requests(req[p].id)) :
                        Requests(req[p].id)[i].user = req[p].caller
               /\ queue' \in {queue, Append(queue, Event(req[p]))}]_vars

\* Create and one RequestJoin have run and the JoinRequest is in the
\* Store; the enqueue failed after the answer: no event was added, the
\* worker holds none, and the server process has exited.
C16_Witness ==
    /\ started = 2 /\ resp = NoResp
    /\ \A p \in Procs : req[p] = Down
    /\ req[Worker].pc = "idle"
    /\ queue = <<>>
    /\ \E b \in DOMAIN store : Len(Requests(b)) = 1

\* C17: the worker's outcome for the job it has taken comes from the Store
\* as it is when its read is answered: with no broadcast of the job's id
\* stored the job ends as dropped, without error and without a
\* notification; otherwise the notification goes to the creator the Store
\* holds at that moment.  The job left the queue when it was taken, is not
\* put back, and the Store stays as it is.
C17_WorkerDropsMissing ==
    [][/\ resp'.op = "notify"
          => /\ req[Worker].pc = "w_read" /\ req'[Worker].pc = "idle"
             /\ resp'.id = req[Worker].id
             /\ resp'.caller = req[Worker].caller
             /\ queue' = queue
             /\ store' = store
             /\ IF resp'.id \in DOMAIN store
                THEN resp'.result = "Notified" /\ resp'.to = store[resp'.id].creator
                ELSE resp'.result = "Dropped" /\ resp'.to = NoUser
       /\ req'[Worker].pc = "w_read"
          => \/ req'[Worker] = req[Worker]
             \/ /\ req[Worker].pc = "idle"
                /\ queue # <<>> /\ queue' = Tail(queue)
                /\ Job(req'[Worker]) = Head(queue)
                /\ store' = store /\ resp' = NoResp
       /\ (req[Worker].pc = "w_read" /\ req'[Worker].pc # "w_read")
          => resp'.op = "notify"]_vars

\* C18: an event whose processing failed is handed back to the queue, to
\* be processed again.
C18_FailedEventRetried ==
    [][(resp'.op = "notify" /\ resp'.result = "Failed")
       => \E i \in 1..Len(queue') : queue'[i] = Job(req[Worker])]_vars

\* C19: a sweeper run that read the clock at t leaves the collection with
\* the same broadcasts, each with every field but status as before; a
\* broadcast is expired afterwards exactly when it was expired before or
\* was active with expiresAt <= t, and nothing but a run changes the Store.
C19_SweepExactlyDue ==
    [][/\ \A p \in Procs :
            (req[p].pc = "s_upd" /\ req'[p].pc # "s_upd")
            => /\ DOMAIN store' = DOMAIN store
               /\ \A b \in DOMAIN store :
                    /\ store'[b].title = store[b].title
                    /\ store'[b].description = store[b].description
                    /\ store'[b].creator = store[b].creator
                    /\ store'[b].createdAt = store[b].createdAt
                    /\ store'[b].expiresAt = store[b].expiresAt
                    /\ store'[b].joinRequests = store[b].joinRequests
                    /\ store'[b].v = store[b].v
                    /\ store'[b].status \in {"active", "expired"}
                    /\ store'[b].status = "expired"
                       <=> \/ store[b].status = "expired"
                           \/ store[b].expiresAt <= req[p].at
       /\ store' # store
          => \E p \in Procs : req[p].pc = "s_upd" /\ req'[p].pc # "s_upd"]_vars

\* A run has expired a broadcast that carries a join request and has left
\* alone one whose deadline is still ahead.
C19_Witness ==
    \E a, b \in DOMAIN store :
        /\ store[a].status = "expired" /\ store[a].joinRequests # <<>>
        /\ store[a].expiresAt <= now
        /\ store[b].status = "active" /\ store[b].expiresAt > now

Later(t, u) == IF t >= u THEN t ELSE u

\* C20: a run that lands leaves a collection on which the same run again
\* changes nothing and no expired broadcast changed; with another run in
\* flight, the two land in either order on the same collection, the one a
\* single run with the later clock value produces.
C20_SweepIdempotent ==
    [][\A p \in Procs :
         (req[p].pc = "s_upd" /\ req'[p].pc # "s_upd")
         => LET t == req[p].at
            IN  /\ MarkExpiredIn(store', t) = store'
                /\ \A b \in DOMAIN store :
                     store[b].status = "expired" => store'[b] = store[b]
                /\ \A q \in Procs \ {p} :
                     req[q].pc = "s_upd"
                     => LET u == req[q].at
                        IN  /\ MarkExpiredIn(store', u)
                                 = MarkExpiredIn(MarkExpiredIn(store, u), t)
                            /\ MarkExpiredIn(store', u)
                                 = MarkExpiredIn(store, Later(t, u))]_vars

\* Two runs overlapped: the second started while the first was in flight,
\* the first has landed and expired a broadcast the second will meet again.
C20_Witness ==
    /\ req[1].pc = "idle" /\ req[2].pc = "s_upd" /\ req[2].op = "sweep"
    /\ \E b \in DOMAIN store :
         store[b].status = "expired" /\ store[b].expiresAt <= req[2].at

\* C21: with no request at all, a stored broadcast that is active with its
\* deadline reached is eventually stored as expired, unless it leaves the
\* Store first.
C21_EventuallyExpired ==
    \A b \in SweptIds :
        (b \in DOMAIN store /\ store[b].status = "active"
         /\ store[b].expiresAt <= now)
        ~> (b \notin DOMAIN store \/ store[b].status = "expired")

\* No handler has run, a deadline has been reached and the broadcast is
\* stored as expired.
C21_Witness ==
    /\ started = 0
    /\ \E b \in DOMAIN store :
         store[b].status = "expired" /\ store[b].expiresAt = now

\* C22: writers of one broadcast do not undo each other.  No stored
\* JoinRequest is ever dropped or moved; the save of a RequestJoin appends
\* to the array as stored (not as loaded), the save of a DecideJoinRequest
\* answered OK sets the one status (when it differs from the loaded one) in
\* the document as stored and changes nothing else, the save of
\* an Update leaves status, joinRequests and version as stored, and no
\* handler step changes the status the sweeper has set.
C22_NoLostUpdate ==
    [][\A b \in DOMAIN store \cap DOMAIN store' :
         /\ Len(store'[b].joinRequests) >= Len(Requests(b))
         /\ \A i \in 1..Len(Requests(b)) :
              store'[b].joinRequests[i].user = Requests(b)[i].user
         /\ store[b].status = "expired" => store'[b].status = "expired"
         /\ \A p \in Procs :
              (req[p].id = b /\ req[p].pc = "j_save" /\ req'[p].pc = "j_enq")
              => store'[b] =
                   [store[b] EXCEPT
                      !.joinRequests =
                          Append(@, [user |-> req[p].caller, status |-> "pending"]),
                      !.v = @ + 1]
         /\ \A p \in Procs :
              (req[p].id = b /\ req[p].pc = "d_save" /\ req'[p].pc = "idle"
               /\ resp' = Response(req[p], "OK"))
              => \E i \in 1..Len(Requests(b)) :
                   /\ Requests(b)[i].user = req[p].requester
                   /\ store'[b] =
                        IF req[p].doc.joinRequests[i].status # req[p].decision
                        THEN [store[b] EXCEPT
                                !.joinRequests[i].status = req[p].decision]
                        ELSE store[b]
         /\ \A p \in Procs :
              (req[p].id = b /\ req[p].pc = "u_save" /\ req'[p].pc = "idle"
               /\ resp' = Response(req[p], "OK"))
              => /\ store'[b].status = store[b].status
                 /\ store'[b].joinRequests = Requests(b)
                 /\ store'[b].v = store[b].v
                 /\ store'[b].title \in {store[b].title, req[p].title}
                 /\ store'[b].description
                       \in {store[b].description, req[p].description}
                 /\ store'[b].expiresAt
                       \in {store[b].expiresAt, req[p].expiresAt}]_vars

\* Two RequestJoin calls by different users overlapped: the one still in
\* flight loaded the broadcast before the other had saved and saved after
\* it, and both JoinRequests are stored.
C22_Witness ==
    \E p \in Procs :
        /\ req[p].op = "join" /\ req[p].pc = "j_enq"
        /\ req[p].doc.joinRequests = <<>>
        /\ req[p].id \in DOMAIN store
        /\ Len(Requests(req[p].id)) = 2
        /\ Requests(req[p].id)[2].user = req[p].caller
        /\ Requests(req[p].id)[1].user # req[p].caller

\* C23: no step changes title, description or expiresAt of a broadcast that
\* is stored as expired or whose deadline has been reached.
C23_MutableOnlyWhileActive ==
    [][\A b \in DOMAIN store \cap DOMAIN store' :
         (store[b].status = "expired" \/ store[b].expiresAt <= now)
         => /\ store'[b].title = store[b].title
            /\ store'[b].description = store[b].description
            /\ store'[b].expiresAt = store[b].expiresAt]_vars

\* C24: the save of an Update answered OK leaves id, creator, createdAt,
\* status, joinRequests and version of its broadcast and every other
\* broadcast as stored; a field that was not supplied keeps its value and a
\* supplied one that differs from the loaded copy takes the supplied value.
\* An Update answered NotFound, Forbidden, InThePast or with a server error
\* leaves the Store unchanged.
C24_UpdateFrame ==
    [][/\ \A p \in Procs :
            (req[p].pc = "u_save" /\ req'[p].pc = "idle"
             /\ resp' = Response(req[p], "OK"))
            => LET b == req[p].id
                   r == req[p]
               IN  /\ b \in DOMAIN store /\ DOMAIN store' = DOMAIN store
                   /\ \A c \in DOMAIN store \ {b} : store'[c] = store[c]
                   /\ store'[b].id = store[b].id
                   /\ store'[b].creator = store[b].creator
                   /\ store'[b].createdAt = store[b].createdAt
                   /\ store'[b].status = store[b].status
                   /\ store'[b].joinRequests = store[b].joinRequests
                   /\ store'[b].v = store[b].v
                   /\ store'[b].title =
                        IF r.title # Undef /\ r.title # r.doc.title
                        THEN r.title ELSE store[b].title
                   /\ store'[b].description =
                        IF r.description # Undef
                           /\ r.description # r.doc.description
                        THEN r.description ELSE store[b].description
                   /\ store'[b].expiresAt =
                        IF r.expiresAt # NoTime /\ r.expiresAt # r.doc.expiresAt
                        THEN r.expiresAt ELSE store[b].expiresAt
       /\ (resp'.op = "update" /\ resp'.result # "OK") => store' = store]_vars

\* An Update that supplied only a title has just succeeded on a broadcast
\* that carries a join request, while another broadcast is stored: the
\* title is new, the description and the join request are as they were,
\* and the other broadcast has its first title.
C24_Witness ==
    /\ resp.op = "update" /\ resp.result = "OK"
    /\ resp.id \in DOMAIN store
    /\ store[resp.id].title \in UpdateTitles
    /\ store[resp.id].description \in CreateDescriptions
    /\ store[resp.id].joinRequests # <<>>
    /\ \E c \in DOMAIN store \ {resp.id} :
         /\ store[c].title \in CreateTitles
         /\ store[c].joinRequests # store[resp.id].joinRequests

\* C25: the save of a DecideJoinRequest answered OK leaves the broadcast as
\* stored except for the status of the requester's JoinRequest (the first
\* entry of that user), which a GetById made next shows as the decision
\* whenever the decision differs from the status the handler had loaded;
\* the broadcast may be active or expired.  A DecideJoinRequest answered
\* RequestNotFound found no entry of the requester and leaves the Store
\* unchanged.
C25_DecideSetsOneStatus ==
    [][/\ \A p \in Procs :
            (req[p].pc = "d_save" /\ req'[p].pc = "idle"
             /\ resp' = Response(req[p], "OK"))
            => LET b == req[p].id
                   i == CHOOSE k \in 1..Len(req[p].doc.joinRequests) :
                          /\ req[p].doc.joinRequests[k].user = req[p].requester
                          /\ \A j \in 1..(k - 1) :
                               req[p].doc.joinRequests[j].user # req[p].requester
                   changed == req[p].doc.joinRequests[i].status # req[p].decision
               IN  /\ b \in DOMAIN store /\ DOMAIN store' = DOMAIN store
                   /\ \A c \in DOMAIN store \ {b} : store'[c] = store[c]
                   /\ Requests(b)[i].user = req[p].requester
                   /\ \A f \in {"id", "title", "description", "creator",
                                "createdAt", "expiresAt", "status", "v"} :
                        store'[b][f] = store[b][f]
                   /\ Len(store'[b].joinRequests) = Len(Requests(b))
                   /\ \A k \in 1..Len(Requests(b)) :
                        k # i => store'[b].joinRequests[k] = Requests(b)[k]
                   /\ store'[b].joinRequests[i].user = req[p].requester
                   /\ changed
                      => \A c \in Ids, k \in 1..Len(Requests(b)) :
                           (c = b /\ k = i)
                           => GetBroadcastDetails(c)'.joinRequests[k].status
                                 = req[p].decision
                   /\ ~changed => store' = store
       /\ (resp'.op = "decide" /\ resp'.result = "RequestNotFound")
          => /\ store' = store
             /\ resp'.id \in DOMAIN store
             /\ \E u \in Users :
                  \A k \in 1..Len(Requests(resp'.id)) :
                     Requests(resp'.id)[k].user # u
       /\ (resp'.op = "decide" /\ resp'.result # "OK") => store' = store]_vars

\* The creator has just decided a JoinRequest of a broadcast the sweeper
\* had marked expired, next to another user's request that is still
\* pending.
C25_Witness ==
    /\ resp.op = "decide" /\ resp.result = "OK"
    /\ resp.id \in DOMAIN store
    /\ store[resp.id].status = "expired"
    /\ \E i, k \in 1..Len(Requests(resp.id)) :
         /\ Requests(resp.id)[i].status \in Decisions
         /\ Requests(resp.id)[k].status = "pending"
         /\ Requests(resp.id)[k].user # Requests(resp.id)[i].user

\* C26: a ListActive that finds the key in the cache answers with the cached
\* listing at once and goes to the Store only when the key is absent; the
\* Store query yields exactly the stored broadcasts that are active with
\* expiresAt later than the clock the handler read for it (after the cache
\* answered, no later than the query's arrival); that listing is
\* what the call returns and what it stores in the cache, to live for
\* CacheTTL seconds from then, and the key is never present at or past its
\* expiry.
C26_ReadThrough ==
    [][/\ (resp'.op = "list" /\ req' = req)
          => /\ cache.present /\ now < cache.exp
             /\ resp'.result = "OK" /\ resp'.listing = cache.val
             /\ cache' = cache /\ store' = store
       /\ \A p \in Procs :
            (req[p].pc = "idle" /\ req'[p].op = "list" /\ req'[p].pc # "idle")
            => /\ ~cache.present
               /\ req'[p].pc = "l_find" /\ req'[p].at = now
       /\ \A p \in Procs :
            (req[p].pc = "l_find" /\ req'[p].pc # "l_find")
            => /\ req'[p].pc = "l_set"
               /\ req[p].at <= req'[p].at /\ req'[p].at <= now
               /\ req'[p].listing =
                    {store[b] : b \in {x \in DOMAIN store :
                        /\ store[x].status = "active"
                        /\ ~(store[x].expiresAt <= req'[p].at)}}
               /\ cache' = cache /\ store' = store
       /\ \A p \in Procs :
            (req[p].pc = "l_set" /\ req'[p].pc # "l_set")
            => /\ resp'.op = "list" /\ resp'.result = "OK"
               /\ resp'.listing = req[p].listing
               /\ cache' = [present |-> TRUE, val |-> req[p].listing,
                            exp |-> now + CacheTTL]
               /\ store' = store
       /\ cache'.present => now' < cache'.exp /\ cache'.exp <= now' + CacheTTL]_vars

\* A ListActive has just been answered from a cache entry written at an
\* earlier clock value.
C26_Witness ==
    /\ resp.op = "list" /\ resp.result = "OK"
    /\ cache.present /\ cache.exp < now + CacheTTL
    /\ resp.listing = cache.val /\ resp.listing # {}

\* C27: a broadcast leaves the Store only in the delete step of a Delete
\* by its creator that is answered OK, or, with no handler involved, when
\* its expiresAt has been reached; so a stored broadcast whose expiresAt is
\* ahead stays stored through every step that is not such a Delete.
C27_LeavesOnlyByDeleteOrPurge ==
    [][\A b \in DOMAIN store :
         b \notin DOMAIN store'
         => \/ \E p \in Procs :
                 /\ req[p].op = "delete" /\ req[p].pc = "x_del"
                 /\ req[p].id = b /\ req[p].caller = store[b].creator
                 /\ req'[p].pc = "idle"
                 /\ resp' = Response(req[p], "OK")
            \/ /\ store[b].expiresAt <= now
               /\ req' = req /\ resp' = NoResp
               /\ \A c \in DOMAIN store \ {b} :
                    c \in DOMAIN store' /\ store'[c] = store[c]]_vars

\* Only the Create has run and its broadcast is gone: the TTL monitor has
\* purged it after its deadline.
C27_Witness ==
    /\ started = 1 /\ resp = NoResp
    /\ \A p \in Procs : req[p].pc = "idle"
    /\ Gone(1) /\ now >= 2 * TickStep
====
